---- MODULE Spec2Model ----
(***************************************************************************)
(* LingQ Downloader (lingq_downloader.py): the paginated retrieval with    *)
(* backoff of get_lingqs_for_language, the orchestration of                *)
(* download_all_lingqs and the report of main, as a state machine.         *)
(*                                                                         *)
(* One step of the paginator is one iteration of its `while True` loop:    *)
(* one HTTP request, the answer the server (or the network) gives, and     *)
(* everything the loop body does with it, sleeps included.  The server is  *)
(* the environment: every answer is chosen nondeterministically.           *)
(***************************************************************************)
EXTENDS Integers, Sequences, FiniteSets, TLC

(***************************************************************************)
(* Bounds of the model.                                                    *)
(***************************************************************************)
\* The server's dataset has at most MaxPage pages (last_page): it gives a
\* continuation indicator ('next') only on pages below the last.
MaxPage == 2
\* The largest batch of records one page carries.
MaxBatch == 2
\* The sizes of the non-empty batches the server answers with.
BatchSizes == {1, MaxBatch}

(***************************************************************************)
(* Inputs.                                                                 *)
(***************************************************************************)
\* Language codes the caller and the server use in the model.
Codes == {"de", "es"}
\* page_size arguments of a direct call of get_lingqs_for_language: its
\* default, and one whose decimal form is "429".
PageSizes == {50, 429}
\* HTTP error statuses (>= 400, other than 429) the server may answer with.
ErrorStatuses == {404, 500}
\* Characters of a body at which response.json() may fail.
BodyErrorPositions == {0, 429}
\* --languages of main: absent (the empty sequence) or an explicit list,
\* used as given (order and repetitions kept).
ArgLanguages ==
    { <<>>, <<"de">>, <<"es">>, <<"de", "es">>, <<"es", "de">>, <<"de", "de">> }
\* --format of main.
Formats == {"json", "csv", "both"}

(***************************************************************************)
(* Text: a string is a sequence of tokens; a number is rendered digit by   *)
(* digit, every other piece of text is one token.                          *)
(***************************************************************************)
DigitChars == <<"0", "1", "2", "3", "4", "5", "6", "7", "8", "9">>

\* str(n) of a natural number, as the URL encoding of the query renders it.
RECURSIVE Digits(_)
Digits(n) ==
    IF n < 10 THEN <<DigitChars[n + 1]>>
    ELSE Digits(n \div 10) \o <<DigitChars[(n % 10) + 1]>>

\* The URL of a cards request: url plus the encoded params.
CardsUrl(code, size, p) ==
    <<"https://www.lingq.com/api/v2", "/", code, "/cards/", "?page_size=">>
        \o Digits(size) \o <<"&page=">> \o Digits(p)

\* str(e) of the HTTPError raise_for_status raises for an error status.
HTTPErrorText(status, url) ==
    Digits(status) \o <<" Error: ", "reason", " for url: ">> \o url

\* str(e) of the ConnectionError session.get raises.
ConnectionErrorText(url) ==
    <<"HTTPSConnectionPool(host='www.lingq.com', port=", "4", "4", "3",
      "): Max retries exceeded with url: ">> \o url

\* str(e) of the JSONDecodeError response.json() raises on a body that
\* stops being JSON at character pos of its first line.
JSONDecodeErrorText(pos) ==
    <<"Expecting value: line ", "1", " column ">> \o Digits(pos + 1)
        \o <<" (char ">> \o Digits(pos) \o <<")">>

\* "429" in str(e)
In429(text) ==
    \E i \in 1..(Len(text) - 2) :
        text[i] = "4" /\ text[i + 1] = "2" /\ text[i + 2] = "9"

(***************************************************************************)
(* Records.                                                                *)
(***************************************************************************)
\* The batch of n records page p of partition code carries; a record is
\* identified by its partition, its page and its place in the page.
Batch(code, p, n) == [i \in 1..n |-> <<code, p, i>>]

NoRequest == [page |-> 0, answer |-> "none"]
NoSleep == [kind |-> "none", secs |-> 0]
NoCall == [request |-> "none", answer |-> "none"]
NoLingq == [hints |-> <<>>]
NoFlat == <<>>

VARIABLES
    pc,                 \* where the run is
    mode,               \* "none", "main" (main -> download_all_lingqs) or
                        \* "direct" (a direct call of get_lingqs_for_language)
    args_languages,     \* main: args.languages (<<>> when absent)
    export_format,      \* main: args.format
    languages,          \* download_all_lingqs: the working list
    lang_i,             \* download_all_lingqs: position of the for loop
    probe_i,            \* download_all_lingqs: position in common_languages
    contexts,           \* download_all_lingqs: the contexts listing
    all_data,           \* download_all_lingqs: code -> records
    files,              \* the files opened for writing, in order
    result,             \* main: what download_all_lingqs returned
    incomplete,         \* main: the codes printed as incomplete
    language_code,      \* get_lingqs_for_language: its arguments ...
    page_size,
    page,               \* ... and its locals
    consecutive_errors,
    all_lingqs,
    state,              \* the paginator's state: FETCHING, DONE, ABORTED
    \* history of the current retrieval
    last_request,       \* the last request issued: its page and its answer
    prev_request,       \* the one before it
    throttles,          \* rate-limit signals handled since the last success
    streak429,          \* consecutive 429 responses for the current page
    slept,              \* the sleep taken by the last iteration
    accepted,           \* sum of the batch sizes of the non-empty successes
    requests,           \* number of requests issued by the retrieval,
                        \* counted up to last_page + 1 ("more than that")
    disturbed,          \* some request was throttled or failed
    page_requests,      \* number of them for the page of the last request
    last_page,          \* the server: the last page that can carry records
    \* flatten_lingq
    lingq,              \* its argument
    flattened,          \* its value
    \* history of the run
    outcomes,           \* per processed list element: code, state, records
    last_call           \* the last request of download_all_lingqs itself
                        \* since the last retrieval: the request, its answer

cvars == <<last_page, lingq, flattened>>
rvars == <<language_code, page_size, page, consecutive_errors, all_lingqs,
           state, last_request, prev_request, throttles, streak429, slept,
           accepted, requests, disturbed, page_requests>>
pvars == <<rvars, cvars>>
ovars == <<mode, args_languages, export_format, languages, lang_i, probe_i,
           contexts, all_data, files, result, incomplete, outcomes,
           last_call>>
vars == <<pc, pvars, ovars>>

Init ==
    /\ pc = "idle"
    /\ mode = "none"
    /\ args_languages = <<>>
    /\ export_format = "csv"
    /\ languages = <<>>
    /\ lang_i = 0
    /\ probe_i = 0
    /\ contexts = <<>>
    /\ all_data = [c \in {} |-> <<>>]
    /\ files = <<>>
    /\ result = <<>>
    /\ incomplete = {}
    /\ language_code = ""
    /\ page_size = 0
    /\ page = 0
    /\ consecutive_errors = 0
    /\ all_lingqs = <<>>
    /\ state = "NONE"
    /\ last_request = NoRequest
    /\ prev_request = NoRequest
    /\ throttles = 0
    /\ streak429 = 0
    /\ slept = NoSleep
    /\ accepted = 0
    /\ requests = 0
    /\ disturbed = FALSE
    /\ page_requests = 0
    /\ last_page = MaxPage
    /\ lingq = NoLingq
    /\ flattened = NoFlat
    /\ outcomes = <<>>
    /\ last_call = NoCall

(***************************************************************************)
(* get_lingqs_for_language                                                 *)
(***************************************************************************)
\* Lines 57-61: the locals at entry.
Enter(code, size) ==
    /\ language_code' = code
    /\ page_size' = size
    /\ page' = 1
    /\ consecutive_errors' = 0
    /\ all_lingqs' = <<>>
    /\ state' = "FETCHING"
    /\ last_request' = NoRequest
    /\ prev_request' = NoRequest
    /\ throttles' = 0
    /\ streak429' = 0
    /\ slept' = NoSleep
    /\ accepted' = 0
    /\ requests' = 0
    /\ disturbed' = FALSE
    /\ page_requests' = 0
    /\ UNCHANGED cvars

\* A direct call get_lingqs_for_language(code, size).
CallGetLingqs ==
    /\ pc = "idle"
    /\ \E code \in Codes, size \in PageSizes : Enter(code, size)
    /\ pc' = "fetch"
    /\ mode' = "direct"
    /\ UNCHANGED <<args_languages, export_format, languages, lang_i, probe_i,
                   contexts, all_data, files, result, incomplete, outcomes,
                   last_call>>

\* The answers that are successes: status 200 and a body that parses.
SuccessAnswers == {"ok_more", "ok_last", "ok_empty", "ok_empty_next"}

\* The request of this iteration and its answer, for the history.
Requested(answer) ==
    /\ prev_request' = last_request
    /\ last_request' = [page |-> page, answer |-> answer]
    /\ streak429' = IF answer = "status429" THEN streak429 + 1 ELSE 0
    /\ requests' = IF requests <= last_page THEN requests + 1 ELSE requests
    /\ disturbed' = (disturbed \/ answer \notin SuccessAnswers)
    /\ page_requests' = IF last_request.page = page THEN page_requests + 1
                        ELSE 1

\* Backoff stopping one signal early (>= 5 for > 5).
Backoff_AtFive(wait_time) ==
    /\ slept' = [kind |-> "backoff", secs |-> wait_time]
    /\ consecutive_errors' = consecutive_errors + 1
    /\ throttles' = throttles + 1
    /\ IF consecutive_errors + 1 >= 5
       THEN state' = "ABORTED" /\ pc' = "return"
       ELSE state' = "FETCHING" /\ pc' = "fetch"
    /\ UNCHANGED <<page, all_lingqs, accepted>>

\* Lines 75-82 (status path) and 111-117 (exception path): the backoff.
\* The loop goes on with the same page unless the counter exceeds 5.
Backoff(wait_time) ==
    /\ slept' = [kind |-> "backoff", secs |-> wait_time]
    /\ consecutive_errors' = consecutive_errors + 1
    /\ throttles' = throttles + 1
    /\ IF consecutive_errors + 1 > 5
       THEN state' = "ABORTED" /\ pc' = "return"
       ELSE state' = "FETCHING" /\ pc' = "fetch"
    /\ UNCHANGED <<page, all_lingqs, accepted>>

\* A break that leaves the loop without settling how the retrieval ended.
Break_KeepsState(final) ==
    /\ state' = state
    /\ pc' = "return"
    /\ slept' = NoSleep
    /\ UNCHANGED <<page, all_lingqs, accepted>>

\* A break that leaves the loop with the records accumulated so far.
Break(final) ==
    /\ state' = final
    /\ pc' = "return"
    /\ slept' = NoSleep
    /\ UNCHANGED <<page, all_lingqs, accepted>>

\* FetchRateLimited taking the body of the 429 response for a batch before
\* it looks at the status.
FetchRateLimited_Extends ==
    /\ pc = "fetch"
    /\ Requested("status429")
    /\ slept' = [kind |-> "backoff", secs |-> 60 + (consecutive_errors * 30)]
    /\ consecutive_errors' = consecutive_errors + 1
    /\ throttles' = throttles + 1
    /\ all_lingqs' = all_lingqs \o Batch(language_code, page, 1)
    /\ IF consecutive_errors + 1 > 5
       THEN state' = "ABORTED" /\ pc' = "return"
       ELSE state' = "FETCHING" /\ pc' = "fetch"
    /\ UNCHANGED <<page, accepted, language_code, page_size, cvars, ovars>>

\* Lines 74-82: the response has status 429.
FetchRateLimited ==
    /\ pc = "fetch"
    /\ Requested("status429")
    /\ Backoff(60 + (consecutive_errors * 30))
    /\ UNCHANGED <<language_code, page_size, cvars, ovars>>

\* RequestException whose wait does not grow with the counter.
RequestException_Flat(text) ==
    IF In429(text)
    THEN Backoff(60)
    ELSE /\ Break("ABORTED")
         /\ UNCHANGED <<consecutive_errors, throttles>>

\* Lines 109-120: the handler of a RequestException whose str() is text.
RequestException(text) ==
    IF In429(text)
    THEN Backoff(60 + (consecutive_errors * 30))
    ELSE /\ Break("ABORTED")
         /\ UNCHANGED <<consecutive_errors, throttles>>

\* Line 84: raise_for_status raises for an error status other than 429.
FetchHttpError ==
    /\ pc = "fetch"
    /\ Requested("http_error")
    /\ \E status \in ErrorStatuses :
          RequestException(
              HTTPErrorText(status, CardsUrl(language_code, page_size, page)))
    /\ UNCHANGED <<language_code, page_size, cvars, ovars>>

\* Line 71: session.get raises a ConnectionError.
FetchConnectionError ==
    /\ pc = "fetch"
    /\ Requested("connection_error")
    /\ RequestException(
          ConnectionErrorText(CardsUrl(language_code, page_size, page)))
    /\ UNCHANGED <<language_code, page_size, cvars, ovars>>

\* Lines 121-123: the handler of any other exception.
UnexpectedException ==
    /\ Break("ABORTED")
    /\ UNCHANGED <<consecutive_errors, throttles>>

\* Line 85: response.json() raises on a body that is not JSON: a
\* JSONDecodeError that is a RequestException (requests 2.27 and later) or
\* a plain ValueError (before), as the installed library has it.
FetchBadBody ==
    /\ pc = "fetch"
    /\ Requested("bad_body")
    /\ \E pos \in BodyErrorPositions :
          \/ RequestException(JSONDecodeErrorText(pos))
          \/ UnexpectedException
    /\ UNCHANGED <<language_code, page_size, cvars, ovars>>

\* FetchEmpty looking at 'next' before it looks at the batch.
FetchEmpty_FollowsNext ==
    /\ pc = "fetch"
    /\ consecutive_errors' = 0
    /\ throttles' = 0
    /\ \E next \in BOOLEAN :
          /\ Requested(IF next THEN "ok_empty_next" ELSE "ok_empty")
          /\ IF next /\ page < last_page
             THEN /\ page' = page + 1
                  /\ state' = "FETCHING"
                  /\ pc' = "fetch"
                  /\ slept' = NoSleep
                  /\ UNCHANGED <<all_lingqs, accepted>>
             ELSE Break("DONE")
    /\ UNCHANGED <<language_code, page_size, cvars, ovars>>

\* Lines 84-90: a success whose batch is empty, with or without 'next'.
FetchEmpty ==
    /\ pc = "fetch"
    /\ \E next \in BOOLEAN :
          Requested(IF next THEN "ok_empty_next" ELSE "ok_empty")
    /\ consecutive_errors' = 0
    /\ throttles' = 0
    /\ Break("DONE")
    /\ UNCHANGED <<language_code, page_size, cvars, ovars>>

\* FetchLast going on to the next page although there is no 'next'.
FetchLast_IgnoresNext ==
    /\ pc = "fetch"
    /\ Requested("ok_last")
    /\ consecutive_errors' = 0
    /\ throttles' = 0
    /\ \E n \in BatchSizes :
          /\ all_lingqs' = all_lingqs \o Batch(language_code, page, n)
          /\ accepted' = accepted + n
    /\ IF page < last_page
       THEN page' = page + 1 /\ state' = "FETCHING" /\ pc' = "fetch"
       ELSE page' = page /\ state' = "DONE" /\ pc' = "return"
    /\ slept' = NoSleep
    /\ UNCHANGED <<language_code, page_size, cvars, ovars>>

\* Lines 84-97: a success with a non-empty batch and no 'next'.
FetchLast ==
    /\ pc = "fetch"
    /\ Requested("ok_last")
    /\ consecutive_errors' = 0
    /\ throttles' = 0
    /\ \E n \in BatchSizes :
          /\ all_lingqs' = all_lingqs \o Batch(language_code, page, n)
          /\ accepted' = accepted + n
    /\ state' = "DONE"
    /\ pc' = "return"
    /\ slept' = NoSleep
    /\ UNCHANGED <<page, language_code, page_size, cvars, ovars>>

\* The delay chosen from the page just fetched, before the increment of
\* line 99.
Delay_BeforeIncrement(p) ==
    IF p - 1 < 10 THEN 1 ELSE IF p - 1 < 50 THEN 2 ELSE 3

\* Lines 101-107: the progressive delay, from the page just incremented.
Delay(p) == IF p < 10 THEN 1 ELSE IF p < 50 THEN 2 ELSE 3

\* FetchMore going on to the next page without line 86: the counter keeps
\* the throttles of the page just fetched.
FetchMore_KeepsCounter ==
    /\ pc = "fetch"
    /\ page < last_page
    /\ Requested("ok_more")
    /\ \E n \in BatchSizes :
          /\ all_lingqs' = all_lingqs \o Batch(language_code, page, n)
          /\ accepted' = accepted + n
    /\ page' = page + 1
    /\ slept' = [kind |-> "inter_page", secs |-> Delay(page + 1)]
    /\ state' = "FETCHING"
    /\ pc' = "fetch"
    /\ UNCHANGED <<consecutive_errors, throttles, language_code, page_size,
                   cvars, ovars>>

\* Lines 84-107: a success with a non-empty batch and 'next'.
FetchMore ==
    /\ pc = "fetch"
    /\ page < last_page
    /\ Requested("ok_more")
    /\ consecutive_errors' = 0
    /\ throttles' = 0
    /\ \E n \in BatchSizes :
          /\ all_lingqs' = all_lingqs \o Batch(language_code, page, n)
          /\ accepted' = accepted + n
    /\ page' = page + 1
    /\ slept' = [kind |-> "inter_page", secs |-> Delay(page + 1)]
    /\ state' = "FETCHING"
    /\ pc' = "fetch"
    /\ UNCHANGED <<language_code, page_size, cvars, ovars>>

\* Lines 125-126 of a direct call: the records are returned to the caller.
ReturnDirect ==
    /\ pc = "return"
    /\ mode = "direct"
    /\ pc' = "exit"
    /\ result' = all_lingqs
    /\ UNCHANGED <<pvars, mode, args_languages, export_format, languages,
                   lang_i, probe_i, contexts, all_data, files, incomplete,
                   outcomes, last_call>>

(***************************************************************************)
(* download_all_lingqs and main                                            *)
(***************************************************************************)
\* Line 206.
common_languages ==
    <<"en", "es", "fr", "de", "it", "pt", "ru", "ja", "ko", "zh">>

\* The ways a request of download_all_lingqs itself can fail.
Failures == {"status429", "http_error", "connection_error"}

\* The 'language' of a context: a reference (the URL of a language), an
\* inline object carrying the code, or absent.
Reference(code) == [shape |-> "reference", url |-> <<"languages", code>>]
Inline(code) == [shape |-> "inline", code |-> code]
Absent == [shape |-> "absent"]
\* The contexts listings the server may answer with.
ContextLists ==
    { <<>>, <<Absent>>, <<Reference("de")>>, <<Inline("es")>>,
      <<Reference("de"), Inline("de")>>, <<Inline("es"), Reference("de")>> }

EmptyDict == [c \in {} |-> <<>>]

\* d[code] = lingqs of a dict.
DictSet(d, code, lingqs) ==
    [c \in (DOMAIN d) \cup {code} |-> IF c = code THEN lingqs ELSE d[c]]

\* Lines 275-280: the number of rows of all_lingqs_flat.
RECURSIVE FlatRows(_, _)
FlatRows(d, keys) ==
    IF keys = {} THEN 0
    ELSE LET k == CHOOSE c \in keys : TRUE
         IN Len(d[k]) + FlatRows(d, keys \ {k})

\* Lines 162-166: save_to_json opens the file for writing.
save_to_json(fs, name, rows) ==
    Append(fs, [name |-> name, header |-> FALSE, rows |-> rows])

\* Lines 168-188: save_to_csv writes nothing for an empty list, and the
\* header row and one row per record otherwise.
save_to_csv(fs, lingqs, name) ==
    IF lingqs = <<>> THEN fs
    ELSE Append(fs, [name |-> name, header |-> TRUE, rows |-> Len(lingqs)])

\* Lines 300-322: main parses the arguments and calls download_all_lingqs.
CallMain ==
    /\ pc = "idle"
    /\ \E langs \in ArgLanguages, fmt \in Formats :
          /\ args_languages' = langs
          /\ languages' = langs
          /\ export_format' = fmt
    /\ mode' = "main"
    /\ pc' = "test_connection"
    /\ UNCHANGED <<pvars, lang_i, probe_i, contexts, all_data, files, result,
                   incomplete, outcomes, last_call>>

\* TestConnectionOk going on to the discovery whatever the caller's list.
TestConnectionOk_AlwaysDiscovers ==
    /\ pc = "test_connection"
    /\ last_call' = [request |-> "test_connection", answer |-> "ok"]
    /\ pc' = "get_user_contexts"
    /\ UNCHANGED <<pvars, mode, args_languages, export_format, languages,
                   lang_i, probe_i, contexts, all_data, files, result,
                   incomplete, outcomes>>

\* Lines 26-30, 194-201: the connection test is answered with status 200.
TestConnectionOk ==
    /\ pc = "test_connection"
    /\ last_call' = [request |-> "test_connection", answer |-> "ok"]
    /\ IF languages # <<>>
       THEN pc' = "loop" /\ lang_i' = 1
       ELSE pc' = "get_user_contexts" /\ lang_i' = lang_i
    /\ UNCHANGED <<pvars, mode, args_languages, export_format, languages,
                   probe_i, contexts, all_data, files, result, incomplete,
                   outcomes>>

\* Lines 26-33, 194-196: any other status, or an exception: return {}.
TestConnectionFails ==
    /\ pc = "test_connection"
    /\ \E answer \in Failures :
          last_call' = [request |-> "test_connection", answer |-> answer]
    /\ result' = EmptyDict
    /\ pc' = "main_report"
    /\ UNCHANGED <<pvars, mode, args_languages, export_format, languages,
                   lang_i, probe_i, contexts, all_data, files, incomplete,
                   outcomes>>

\* Lines 45-50, 202-207, 223: the contexts listing is answered.
GetUserContextsOk ==
    /\ pc = "get_user_contexts"
    /\ last_call' = [request |-> "get_user_contexts", answer |-> "ok"]
    /\ \E ctxs \in ContextLists :
          /\ contexts' = ctxs
          /\ IF ctxs = <<>>
             THEN pc' = "probe" /\ probe_i' = 1
             ELSE pc' = "get_languages" /\ probe_i' = probe_i
    /\ languages' = <<>>
    /\ UNCHANGED <<pvars, mode, args_languages, export_format, lang_i,
                   all_data, files, result, incomplete, outcomes>>

\* Lines 45-53, 202-207: raise_for_status or the request raises: [].
GetUserContextsFails ==
    /\ pc = "get_user_contexts"
    /\ \E answer \in Failures :
          last_call' = [request |-> "get_user_contexts", answer |-> answer]
    /\ contexts' = <<>>
    /\ languages' = <<>>
    /\ pc' = "probe"
    /\ probe_i' = 1
    /\ UNCHANGED <<pvars, mode, args_languages, export_format, lang_i,
                   all_data, files, result, incomplete, outcomes>>

\* Lines 232-242: the code of one context, {} when it resolves to none.
ContextCode(context, lang_lookup) ==
    IF context.shape = "reference"
    THEN IF context.url \in DOMAIN lang_lookup
         THEN {lang_lookup[context.url]} ELSE {}
    ELSE IF context.shape = "inline" THEN {context.code} ELSE {}

\* Line 244: list(set(languages)) gives the codes once each, in any order.
Orderings(S) ==
    { s \in UNION { [1..n -> S] : n \in {Cardinality(S)} } :
        \A i, j \in DOMAIN s : i # j => s[i] # s[j] }

\* Lines 225-244: the languages of the contexts, through the lookup table.
Resolve(lang_lookup) ==
    /\ \E order \in Orderings(
              UNION { ContextCode(contexts[i], lang_lookup) :
                        i \in DOMAIN contexts }) :
          languages' = order
    /\ contexts' = <<>>
    /\ pc' = "loop"
    /\ lang_i' = 1

\* Lines 35-40, 225-226: the languages listing is answered.
GetLanguagesOk ==
    /\ pc = "get_languages"
    /\ last_call' = [request |-> "get_languages", answer |-> "ok"]
    /\ Resolve([u \in { <<"languages", c>> : c \in Codes } |-> u[2]])
    /\ UNCHANGED <<pvars, mode, args_languages, export_format, probe_i,
                   all_data, files, result, incomplete, outcomes>>

\* Lines 35-43, 225-226: the languages listing fails: an empty table.
GetLanguagesFails ==
    /\ pc = "get_languages"
    /\ \E answer \in Failures :
          last_call' = [request |-> "get_languages", answer |-> answer]
    /\ Resolve(EmptyDict)
    /\ UNCHANGED <<pvars, mode, args_languages, export_format, probe_i,
                   all_data, files, result, incomplete, outcomes>>

\* Lines 220-222 after the last probe: return {} when nothing was found.
AfterProbe(found) ==
    /\ languages' = found
    /\ IF probe_i < Len(common_languages)
       THEN /\ probe_i' = probe_i + 1
            /\ pc' = "probe"
            /\ UNCHANGED <<lang_i, result>>
       ELSE /\ probe_i' = 0
            /\ IF found = <<>>
               THEN pc' = "main_report" /\ result' = EmptyDict
                    /\ lang_i' = lang_i
               ELSE pc' = "loop" /\ lang_i' = 1 /\ result' = result

\* Lines 208-216: the probe is answered 200 with count > 0.
ProbeFound ==
    /\ pc = "probe"
    /\ common_languages[probe_i] \in Codes
    /\ last_call' = [request |-> "probe", answer |-> "ok"]
    /\ AfterProbe(Append(languages, common_languages[probe_i]))
    /\ UNCHANGED <<pvars, mode, args_languages, export_format, contexts,
                   all_data, files, incomplete, outcomes>>

\* Lines 208-218: the probe is answered 200 with count 0, with another
\* status, or raises: the language is left out.
ProbeNotFound ==
    /\ pc = "probe"
    /\ \E answer \in Failures \cup {"ok_count_0"} :
          last_call' = [request |-> "probe", answer |-> answer]
    /\ AfterProbe(languages)
    /\ UNCHANGED <<pvars, mode, args_languages, export_format, contexts,
                   all_data, files, incomplete, outcomes>>

\* Lines 251-253: the next language of the list is retrieved.
ProcessLanguage ==
    /\ pc = "loop"
    /\ lang_i <= Len(languages)
    /\ Enter(languages[lang_i], 50)
    /\ pc' = "fetch"
    /\ last_call' = NoCall
    /\ UNCHANGED <<mode, args_languages, export_format, languages, lang_i,
                   probe_i, contexts, all_data, files, result, incomplete,
                   outcomes>>

\* Lines 259-265: the files of one language.
LanguageFiles(fs, code, lingqs) ==
    LET js == IF export_format \in {"json", "both"}
              THEN save_to_json(fs, <<code, "json">>, Len(lingqs)) ELSE fs
    IN IF export_format \in {"csv", "both"}
       THEN save_to_csv(js, lingqs, <<code, "csv">>) ELSE js

\* ReturnToLoop leaving the loop when a retrieval was aborted.
ReturnToLoop_StopsOnAbort ==
    /\ pc = "return"
    /\ mode = "main"
    /\ IF all_lingqs # <<>>
       THEN /\ all_data' = DictSet(all_data, language_code, all_lingqs)
            /\ files' = LanguageFiles(files, language_code, all_lingqs)
       ELSE UNCHANGED <<all_data, files>>
    /\ outcomes' = Append(outcomes, [code |-> language_code, state |-> state,
                                     lingqs |-> all_lingqs])
    /\ lang_i' = IF state = "ABORTED" THEN Len(languages) + 1 ELSE lang_i + 1
    /\ pc' = "loop"
    /\ UNCHANGED <<pvars, mode, args_languages, export_format, languages,
                   probe_i, contexts, result, incomplete, last_call>>

\* Lines 125-126, 253-265: the retrieval returns its records; they are
\* kept and saved when there is at least one.
ReturnToLoop ==
    /\ pc = "return"
    /\ mode = "main"
    /\ IF all_lingqs # <<>>
       THEN /\ all_data' = DictSet(all_data, language_code, all_lingqs)
            /\ files' = LanguageFiles(files, language_code, all_lingqs)
       ELSE UNCHANGED <<all_data, files>>
    /\ outcomes' = Append(outcomes, [code |-> language_code, state |-> state,
                                     lingqs |-> all_lingqs])
    /\ lang_i' = lang_i + 1
    /\ pc' = "loop"
    /\ UNCHANGED <<pvars, mode, args_languages, export_format, languages,
                   probe_i, contexts, result, incomplete, last_call>>

\* Lines 268-295: the files of the aggregate.
CombinedFiles(fs) ==
    LET rows == FlatRows(all_data, DOMAIN all_data)
        js == IF export_format \in {"json", "both"}
              THEN save_to_json(fs, <<"all", "json">>, rows) ELSE fs
    IN IF export_format \in {"csv", "both"} /\ rows > 0
       THEN Append(js, [name |-> <<"all", "csv">>, header |-> TRUE,
                        rows |-> rows])
       ELSE js

\* Lines 267-297: after the loop, the combined files and the return.
SaveCombined ==
    /\ pc = "loop"
    /\ lang_i > Len(languages)
    /\ files' = IF DOMAIN all_data # {} THEN CombinedFiles(files) ELSE files
    /\ result' = all_data
    /\ pc' = "main_report"
    /\ UNCHANGED <<pvars, mode, args_languages, export_format, languages,
                   lang_i, probe_i, contexts, all_data, incomplete, outcomes,
                   last_call>>

\* Lines 330-334: the codes printed as incomplete.
Incomplete(requested, res) ==
    { requested[i] : i \in DOMAIN requested } \ DOMAIN res

\* Lines 324-336: the report of main.
MainReport ==
    /\ pc = "main_report"
    /\ incomplete' = IF DOMAIN result # {} /\ args_languages # <<>>
                     THEN Incomplete(args_languages, result) ELSE {}
    /\ pc' = "exit"
    /\ UNCHANGED <<pvars, mode, args_languages, export_format, languages,
                   lang_i, probe_i, contexts, all_data, files, result,
                   outcomes, last_call>>

Fetch ==
    \/ FetchRateLimited
    \/ FetchHttpError
    \/ FetchConnectionError
    \/ FetchBadBody
    \/ FetchEmpty
    \/ FetchLast
    \/ FetchMore

Next ==
    \/ CallGetLingqs
    \/ Fetch
    \/ ReturnDirect
    \/ CallMain
    \/ TestConnectionOk
    \/ TestConnectionFails
    \/ GetUserContextsOk
    \/ GetUserContextsFails
    \/ GetLanguagesOk
    \/ GetLanguagesFails
    \/ ProbeFound
    \/ ProbeNotFound
    \/ ProcessLanguage
    \/ ReturnToLoop
    \/ SaveCombined
    \/ MainReport

Spec == Init /\ [][Next]_vars

(***************************************************************************)
(* get_lingqs_for_language alone, taken up at the start of a page.         *)
(***************************************************************************)
\* The server holds at most MaxDepth pages beyond the page at which the
\* retrieval is taken up.
MaxDepth == 3
\* The pages at which a retrieval is taken up: its first page, and pages
\* near the thresholds 10 and 50 of the progressive delay.
StartPages == {1, 7, 47}

\* The request for page p of a retrieval whose pages so far were all
\* answered at once with one record and 'next'.
EarlierRequest(p) ==
    IF p >= 1 THEN [page |-> p, answer |-> "ok_more"] ELSE NoRequest

\* Lines 57-107: get_lingqs_for_language(code, size) about to request page
\* p0, every page before it having been answered at once with one record
\* and 'next'.  For p0 = 1 this is the state at entry.
InitPaginator ==
    /\ pc = "fetch"
    /\ mode = "direct"
    /\ args_languages = <<>>
    /\ export_format = "csv"
    /\ languages = <<>>
    /\ lang_i = 0
    /\ probe_i = 0
    /\ contexts = <<>>
    /\ all_data = [c \in {} |-> <<>>]
    /\ files = <<>>
    /\ result = <<>>
    /\ incomplete = {}
    /\ outcomes = <<>>
    /\ last_call = NoCall
    /\ lingq = NoLingq
    /\ flattened = NoFlat
    /\ \E code \in Codes, size \in PageSizes, p0 \in StartPages :
          /\ language_code = code
          /\ page_size = size
          /\ page = p0
          /\ last_page = p0 + MaxDepth
          /\ all_lingqs = [q \in 1..(p0 - 1) |-> <<code, q, 1>>]
          /\ accepted = p0 - 1
          /\ requests = p0 - 1
          /\ page_requests = IF p0 > 1 THEN 1 ELSE 0
          /\ last_request = EarlierRequest(p0 - 1)
          /\ prev_request = EarlierRequest(p0 - 2)
          /\ slept = IF p0 > 1
                     THEN [kind |-> "inter_page", secs |-> Delay(p0)]
                     ELSE NoSleep
    /\ consecutive_errors = 0
    /\ state = "FETCHING"
    /\ throttles = 0
    /\ streak429 = 0
    /\ disturbed = FALSE

PaginatorNext ==
    \/ Fetch
    \/ ReturnDirect

PaginatorSpec == InitPaginator /\ [][PaginatorNext]_vars

\* Every request is answered, or fails, in the end, and every sleep ends:
\* the loop goes on, and the function returns once the loop is left.
PaginatorFairSpec ==
    PaginatorSpec /\ WF_vars(Fetch) /\ WF_vars(ReturnDirect)

(***************************************************************************)
(* flatten_lingq                                                           *)
(***************************************************************************)
\* The longest list of hints of a record.
MaxHints == 2
\* The hints of the model: a text, a locale and a popularity that may be
\* missing.
HintTexts == {"casa", "home"}
HintLocales == {"es", "en"}
HintPopularities == {3, 9}
Hints ==
    [text : HintTexts, locale : HintLocales, popularity : HintPopularities]
        \cup [text : HintTexts, locale : HintLocales]
\* The records of the model, as far as flatten_lingq reads their hints.
Lingqs ==
    { [hints |-> hs] : hs \in UNION { [1..n -> Hints] : n \in 0..MaxHints } }

\* Line 135: x.get('popularity', 0)
Popularity(x) == IF "popularity" \in DOMAIN x THEN x.popularity ELSE 0

\* One step of a stable sort, highest key first: x goes behind every
\* element whose key is not below its own.
InsertByPopularity(sorted, x) ==
    LET before == { i \in DOMAIN sorted : Popularity(sorted[i]) >= Popularity(x) }
        n == Cardinality(before)
    IN SubSeq(sorted, 1, n) \o <<x>> \o SubSeq(sorted, n + 1, Len(sorted))

\* The sort with the lowest key first (reverse=True left out).
RECURSIVE SortedHints_Ascending(_)
SortedHints_Ascending(hs) ==
    IF hs = <<>> THEN <<>>
    ELSE LET sorted == SortedHints_Ascending(SubSeq(hs, 1, Len(hs) - 1))
             x == hs[Len(hs)]
             n == Cardinality({ i \in DOMAIN sorted :
                                  Popularity(sorted[i]) <= Popularity(x) })
         IN SubSeq(sorted, 1, n) \o <<x>> \o SubSeq(sorted, n + 1, Len(sorted))

\* Line 135: sorted(hints, key=popularity, reverse=True); the sort is
\* stable, equal keys keep their order.
RECURSIVE SortedHints(_)
SortedHints(hs) ==
    IF hs = <<>> THEN <<>>
    ELSE InsertByPopularity(SortedHints(SubSeq(hs, 1, Len(hs) - 1)),
                            hs[Len(hs)])

\* Line 142: f"{text} ({locale})"
TextLocale(hint) == <<hint.text, " (", hint.locale, ")">>

\* Line 150: ' | '.join(all_translations)
RECURSIVE JoinTranslations(_)
JoinTranslations(ts) ==
    IF ts = <<>> THEN <<>>
    ELSE IF Len(ts) = 1 THEN ts[1]
    ELSE ts[1] \o <<" | ">> \o JoinTranslations(Tail(ts))

\* Lines 128-160: flatten_lingq, the fields it makes from the hints.
flatten_lingq(l) ==
    LET sorted_hints == SortedHints(l.hints)
    IN [best_translation |->
            IF l.hints # <<>> THEN <<sorted_hints[1].text>> ELSE <<>>,
        translation_locale |->
            IF l.hints # <<>> THEN <<sorted_hints[1].locale>> ELSE <<>>,
        all_translations |->
            JoinTranslations([i \in DOMAIN l.hints |-> TextLocale(l.hints[i])])]

\* A call flatten_lingq(lingq) is about to be made.
InitFlatten ==
    /\ pc = "flatten"
    /\ mode = "none"
    /\ args_languages = <<>>
    /\ export_format = "csv"
    /\ languages = <<>>
    /\ lang_i = 0
    /\ probe_i = 0
    /\ contexts = <<>>
    /\ all_data = [c \in {} |-> <<>>]
    /\ files = <<>>
    /\ result = <<>>
    /\ incomplete = {}
    /\ language_code = ""
    /\ page_size = 0
    /\ page = 0
    /\ consecutive_errors = 0
    /\ all_lingqs = <<>>
    /\ state = "NONE"
    /\ last_request = NoRequest
    /\ prev_request = NoRequest
    /\ throttles = 0
    /\ streak429 = 0
    /\ slept = NoSleep
    /\ accepted = 0
    /\ requests = 0
    /\ disturbed = FALSE
    /\ page_requests = 0
    /\ last_page = MaxPage
    /\ outcomes = <<>>
    /\ last_call = NoCall
    /\ lingq \in Lingqs
    /\ flattened = NoFlat

\* Lines 128-160: the call returns the flattened record.
FlattenLingq ==
    /\ pc = "flatten"
    /\ flattened' = flatten_lingq(lingq)
    /\ pc' = "exit"
    /\ UNCHANGED <<rvars, ovars, last_page, lingq>>

FlattenNext == FlattenLingq

FlattenSpec == InitFlatten /\ [][FlattenNext]_vars

(***************************************************************************)
(* Properties                                                              *)
(***************************************************************************)
\* An answer that is a failure other than a rate-limit signal.
OtherFailures == {"http_error", "connection_error", "bad_body"}
\* A successful answer with an empty batch.
EmptyAnswers == {"ok_empty", "ok_empty_next"}

\* C1: requests start at page 1; after a success with a non-empty batch and
\* 'next' for page p the next request is for page p + 1; a page is requested
\* again only when the request before it, for the same page, was answered
\* with status 429; no page is skipped and the page never decreases.
C1_PageSequence ==
    /\ (last_request # NoRequest /\ prev_request = NoRequest)
          => last_request.page = 1
    /\ prev_request # NoRequest =>
          /\ prev_request.answer = "ok_more"
                => last_request.page = prev_request.page + 1
          /\ last_request.page = prev_request.page
                => prev_request.answer = "status429"
          /\ last_request.page \in {prev_request.page, prev_request.page + 1}

\* C2, as stated: the 5th consecutive 429 for a page stops the retrieval,
\* no further request is issued and a 6th 429 is never received.
C2_StopsAtFifth ==
    /\ streak429 <= 5
    /\ streak429 = 5 => (state = "ABORTED" /\ pc # "fetch")

\* C2, amended: the 6th consecutive 429 for a page stops the retrieval
\* (ABORTED) on that page, no further request is issued and a 7th 429 is
\* never received; while a page has been answered by 429 responses only,
\* one to five of them do not stop it: the same page is requested again.
C2_StopsAtSixth ==
    /\ streak429 <= 6
    /\ streak429 = 6 =>
          (state = "ABORTED" /\ pc # "fetch" /\ page = last_request.page)
    /\ (streak429 \in 1..5 /\ throttles = streak429) =>
          (state = "FETCHING" /\ pc = "fetch" /\ page = last_request.page)

C2_Witness ==
    streak429 = 6 /\ state = "ABORTED" /\ page = 2 /\ all_lingqs # <<>>

\* C3: a request that fails with anything other than a rate-limit signal
\* ends the retrieval at once (ABORTED) and is not retried: no further
\* request is issued, whatever the page and the page_size.
C3_FailureEndsRetrieval ==
    last_request.answer \in OtherFailures =>
        (state = "ABORTED" /\ pc # "fetch")

\* The outcome of element i of the list, when its code occurs once in it.
Once(i) ==
    \A j \in DOMAIN outcomes : j # i => outcomes[j].code # outcomes[i].code

\* C4: at the end of a run of main with an explicit list, a partition is
\* printed as incomplete if and only if its retrieval ended ABORTED.
C4_IncompleteIffAborted ==
    (mode = "main" /\ pc = "exit" /\ args_languages # <<>>) =>
        \A i \in DOMAIN outcomes :
            Once(i) => (outcomes[i].code \in incomplete
                            <=> outcomes[i].state = "ABORTED")

\* C5: a partition whose first page is a success with an empty batch (DONE,
\* no record) is not printed as incomplete at the end of the run.
C5_EmptyIsComplete ==
    (mode = "main" /\ pc = "exit") =>
        \A i \in DOMAIN outcomes :
            (outcomes[i].state = "DONE" /\ outcomes[i].lingqs = <<>>)
                => outcomes[i].code \notin incomplete

\* C6: when get_lingqs_for_language returns, the number of its records is
\* the sum of the batch sizes of the non-empty successes (a page throttled
\* before it succeeded counts once, a throttled or failed request counts
\* nothing), and no record occurs twice.
C6_CountIsSumOfBatches ==
    /\ pc = "return" =>
          /\ Len(all_lingqs) = accepted
          /\ Cardinality({ all_lingqs[i] : i \in DOMAIN all_lingqs })
                = Len(all_lingqs)
    /\ (mode = "direct" /\ pc = "exit") => Len(result) = accepted

C6_Witness ==
    /\ pc = "return"
    /\ prev_request = [page |-> 2, answer |-> "status429"]
    /\ last_request = [page |-> 2, answer |-> "ok_last"]
    /\ accepted = 3

\* C7: a success with an empty batch, with or without 'next', ends the
\* retrieval in DONE: that iteration leaves the records as they were and
\* leaves the loop, and no further request is issued afterwards.
C7_EmptyBatchIsDone ==
    /\ [](last_request.answer \in EmptyAnswers =>
            (state = "DONE" /\ pc # "fetch" /\ page = last_request.page))
    /\ [][(pc = "fetch" /\ last_request'.answer \in EmptyAnswers) =>
            (state' = "DONE" /\ pc' = "return" /\ all_lingqs' = all_lingqs)]_vars

C7_Witness ==
    /\ last_request = [page |-> 2, answer |-> "ok_empty_next"]
    /\ state = "DONE"
    /\ Len(all_lingqs) = 2

InLoop == mode = "main" /\ lang_i >= 1
\* download_all_lingqs has returned after its loop.
AfterLoop == InLoop /\ pc \in {"main_report", "exit"}

\* The records the last retrieval of code that gave any has given.
LastYield(code) ==
    LET js == { j \in DOMAIN outcomes :
                  outcomes[j].code = code /\ outcomes[j].lingqs # <<>> }
    IN outcomes[CHOOSE j \in js : \A k \in js : k <= j].lingqs

\* C9: every partition of the working list is retrieved, in list order and
\* one after the other, whatever the outcomes before it; the value returned
\* holds the records of every partition that yielded at least one.
C9_EveryPartitionRetrieved ==
    /\ InLoop =>
          /\ \A i \in DOMAIN outcomes :
                i <= Len(languages) /\ outcomes[i].code = languages[i]
          /\ pc \in {"fetch", "return"} =>
                (Len(outcomes) = lang_i - 1 /\ language_code = languages[lang_i])
    /\ AfterLoop =>
          /\ Len(outcomes) = Len(languages)
          /\ \A i \in DOMAIN outcomes :
                outcomes[i].lingqs # <<>> =>
                    /\ outcomes[i].code \in DOMAIN result
                    /\ result[outcomes[i].code] = LastYield(outcomes[i].code)

C9_Witness ==
    /\ AfterLoop
    /\ Len(outcomes) = 2
    /\ outcomes[1].state = "ABORTED" /\ outcomes[1].lingqs = <<>>
    /\ outcomes[2].state = "DONE" /\ outcomes[2].lingqs # <<>>
    /\ outcomes[2].code \in DOMAIN result

\* C10: every 429 received during a run is answered by a backoff sleep and
\* a retry of the same request, until the budget is used up: for the
\* requests of download_all_lingqs itself and for the cards pages.
C10_Every429Retried ==
    /\ last_call.answer = "status429" =>
          (slept.kind = "backoff" /\ pc = last_call.request)
    /\ last_request.answer = "status429" =>
          (slept.kind = "backoff" /\ (pc = "fetch" \/ consecutive_errors > 5))

\* C11: within one run no file name is opened for writing more than once.
C11_FilesWrittenOnce ==
    \A i, j \in DOMAIN files : i # j => files[i].name # files[j].name

\* C12: after the loop of a run whose format includes csv, every partition
\* retrieved with no record has its csv file, made of the header row only.
C12_HeaderOnlyCsv ==
    (AfterLoop /\ export_format \in {"csv", "both"}) =>
        \A i \in DOMAIN outcomes :
            outcomes[i].lingqs = <<>> =>
                \E f \in DOMAIN files :
                    /\ files[f].name = <<outcomes[i].code, "csv">>
                    /\ files[f].header
                    /\ files[f].rows = 0

\* The first page of the retrieval was answered by six 429 responses in a
\* row.
SixThrottlesOnFirstPage == streak429 = 6 /\ last_request.page = 1

\* C13: six consecutive 429 responses to the first page: exactly six
\* requests were issued, all for page 1 and the last one followed by its
\* backoff sleep too, no seventh is issued, no record is returned, and at
\* the end of the run the partition is printed as incomplete.
C13_SixThrottlesOnFirstPage ==
    SixThrottlesOnFirstPage =>
        /\ page_requests = 6
        /\ page = 1
        /\ slept = [kind |-> "backoff", secs |-> 210]
        /\ state = "ABORTED"
        /\ pc # "fetch"
        /\ all_lingqs = <<>>
        /\ (mode = "main" /\ pc = "exit") => language_code \in incomplete

\* all_lingqs is the concatenation of the batches of pages 1..k, in page
\* order, every page giving at least one record and every record once.
BatchesOfPages(k) ==
    /\ \A i \in DOMAIN all_lingqs :
          all_lingqs[i][1] = language_code /\ all_lingqs[i][2] \in 1..k
    /\ \A q \in 1..k : \E i \in DOMAIN all_lingqs : all_lingqs[i][2] = q
    /\ all_lingqs # <<>> => all_lingqs[1] = <<language_code, 1, 1>>
    /\ \A i \in 1..(Len(all_lingqs) - 1) :
          LET a == all_lingqs[i]
              b == all_lingqs[i + 1]
          IN \/ b[2] = a[2] /\ b[3] = a[3] + 1
             \/ b[2] = a[2] + 1 /\ b[3] = 1

\* C14: a retrieval with no throttle and no failure ends in DONE; when it
\* ends on an empty page k + 1 it has issued k + 1 requests, when it ends on
\* a k-th non-empty page without 'next' it has issued k; no request follows
\* the answer that ends it; the result is the concatenation of the k
\* batches in page order, each record once.
C14_CleanRun ==
    /\ prev_request.answer \notin ({"ok_last"} \cup EmptyAnswers)
    /\ (~disturbed /\ pc # "fetch" /\ state # "NONE") =>
          /\ state = "DONE"
          /\ requests = last_request.page
          /\ Len(all_lingqs) = accepted
          /\ last_request.answer \in EmptyAnswers
                => BatchesOfPages(last_request.page - 1)
          /\ last_request.answer = "ok_last"
                => BatchesOfPages(last_request.page)

C14_Witness ==
    /\ ~disturbed
    /\ pc = "return"
    /\ last_request = [page |-> 4, answer |-> "ok_empty"]
    /\ requests = 4
    /\ accepted = 5

\* The hint flatten_lingq picks: the first, in wire order, of those with
\* the highest popularity.
IsPrincipal(hs, i) ==
    /\ \A j \in DOMAIN hs : Popularity(hs[j]) <= Popularity(hs[i])
    /\ \A j \in 1..(i - 1) : Popularity(hs[j]) < Popularity(hs[i])

\* The combined field lists every hint as 'text (locale)', in wire order,
\* joined by ' | '.
AllInWireOrder(hs, text) ==
    /\ Len(text) = IF hs = <<>> THEN 0 ELSE 5 * Len(hs) - 1
    /\ \A i \in DOMAIN hs :
          /\ text[5 * (i - 1) + 1] = hs[i].text
          /\ text[5 * (i - 1) + 2] = " ("
          /\ text[5 * (i - 1) + 3] = hs[i].locale
          /\ text[5 * (i - 1) + 4] = ")"
          /\ i < Len(hs) => text[5 * i] = " | "

\* C15, as stated: the principal translation is rendered 'text (locale)'
\* from the hint with the highest popularity, and the combined field lists
\* every hint in wire order.
C15_PrincipalRendered ==
    (pc = "exit" /\ flattened # NoFlat /\ lingq.hints # <<>>) =>
        /\ \E i \in DOMAIN lingq.hints :
              /\ IsPrincipal(lingq.hints, i)
              /\ flattened.best_translation = TextLocale(lingq.hints[i])
        /\ AllInWireOrder(lingq.hints, flattened.all_translations)

\* C15, amended: best_translation is the text alone and translation_locale
\* the locale of the hint with the highest popularity (a missing popularity
\* counts as 0, the first in wire order among equals; both are empty when
\* there is no hint), and the combined field lists every hint as
\* 'text (locale)' in wire order.
C15_PrincipalInTwoFields ==
    (pc = "exit" /\ flattened # NoFlat) =>
        /\ lingq.hints = <<>> =>
              /\ flattened.best_translation = <<>>
              /\ flattened.translation_locale = <<>>
        /\ lingq.hints # <<>> =>
              \E i \in DOMAIN lingq.hints :
                  /\ IsPrincipal(lingq.hints, i)
                  /\ flattened.best_translation = <<lingq.hints[i].text>>
                  /\ flattened.translation_locale = <<lingq.hints[i].locale>>
        /\ AllInWireOrder(lingq.hints, flattened.all_translations)

C15_Witness ==
    /\ pc = "exit"
    /\ lingq.hints = <<[text |-> "casa", locale |-> "es", popularity |-> 3],
                       [text |-> "home", locale |-> "en", popularity |-> 9]>>
    /\ flattened.best_translation = <<"home">>
    /\ flattened.translation_locale = <<"en">>
    /\ flattened.all_translations =
          <<"casa", " (", "es", ")", " | ", "home", " (", "en", ")">>

C17_InterPageSleep ==
    /\ slept.kind = "inter_page" <=> last_request.answer = "ok_more"
    /\ slept.kind = "inter_page" =>
          /\ pc = "fetch"
          /\ page >= 2
          /\ page = last_request.page + 1
          /\ page < 10 => slept.secs = 1
          /\ (10 <= page /\ page < 50) => slept.secs = 2
          /\ page >= 50 => slept.secs = 3
    /\ (pc = "fetch" /\ page = 1) => slept.kind # "inter_page"
    /\ (pc = "fetch" /\ last_request.page = page) => slept.kind = "backoff"
    /\ (pc # "fetch" /\ state # "NONE") => slept.kind # "inter_page"

C17_Witness ==
    /\ pc = "fetch"
    /\ page = 50
    /\ last_request = [page |-> 49, answer |-> "ok_more"]
    /\ prev_request.answer = "status429"
    /\ slept = [kind |-> "inter_page", secs |-> 3]

\* The requests of the resolution of the working set.
ResolutionRequests == {"get_user_contexts", "get_languages", "probe"}

\* download_all_lingqs has settled its working set.
Resolved ==
    /\ mode = "main"
    /\ \/ pc \in {"loop", "fetch", "return"}
       \/ pc \in {"main_report", "exit"} /\ last_call.request # "test_connection"

\* The codes a contexts listing resolves to: the inline codes, and the
\* referenced codes when the languages listing was answered.
ResolvedCodes(ctxs, listed) ==
    { c \in Codes :
        \E i \in DOMAIN ctxs :
            \/ ctxs[i].shape = "inline" /\ ctxs[i].code = c
            \/ /\ listed
               /\ ctxs[i].shape = "reference"
               /\ ctxs[i].url = <<"languages", c>> }

\* C18: the working set is the caller's list when one is supplied, and no
\* contexts, languages or probe request is then issued; otherwise the codes
\* resolved from the contexts when the listing returns at least one
\* context; otherwise the common-language codes whose probe was answered
\* 200 with count > 0. With an empty working set no cards page is
\* requested, no file is written and an empty result is returned.
C18_WorkingSet ==
    /\ [](/\ (mode = "main" /\ args_languages # <<>>) =>
                /\ languages = args_languages
                /\ pc \notin ResolutionRequests
                /\ last_call.request \notin ResolutionRequests
          /\ (Resolved /\ languages = <<>>) =>
                /\ pc \in {"loop", "main_report", "exit"}
                /\ last_request = NoRequest
                /\ state = "NONE"
                /\ outcomes = <<>>
                /\ files = <<>>
                /\ pc \in {"main_report", "exit"} => result = EmptyDict)
    /\ [][/\ pc = "get_user_contexts" =>
                /\ args_languages = <<>>
                /\ contexts' # <<>> => pc' = "get_languages"
                /\ contexts' = <<>> => (pc' = "probe" /\ languages' = <<>>)
          /\ pc = "get_languages" =>
                /\ contexts # <<>>
                /\ pc' = "loop"
                /\ Len(languages') = Cardinality(
                       { languages'[i] : i \in DOMAIN languages' })
                /\ { languages'[i] : i \in DOMAIN languages' } =
                       ResolvedCodes(contexts, last_call'.answer = "ok")
          /\ pc = "probe" =>
                /\ contexts = <<>>
                /\ languages' =
                       IF last_call'.answer = "ok"
                       THEN Append(languages, common_languages[probe_i])
                       ELSE languages
                /\ probe_i < Len(common_languages) => pc' = "probe"
                /\ probe_i = Len(common_languages) =>
                       pc' = IF languages' = <<>> THEN "main_report"
                             ELSE "loop"
          /\ languages' # languages =>
                pc \in {"idle"} \cup ResolutionRequests]_vars

C18_Witness ==
    /\ mode = "main"
    /\ pc = "exit"
    /\ args_languages = <<>>
    /\ last_call = [request |-> "probe", answer |-> "ok_count_0"]
    /\ languages = <<>>
    /\ result = EmptyDict
    /\ files = <<>>
    /\ last_request = NoRequest

\* C19: the consecutive-throttle counter is always between 0 and 6, it is
\* 0 at the first request of every page, and no page is requested more
\* than 6 times in one retrieval.
C19_CounterBounded ==
    /\ consecutive_errors \in 0..6
    /\ consecutive_errors = 6 => (pc # "fetch" /\ state = "ABORTED")
    /\ (pc = "fetch" /\ last_request.page # page) => consecutive_errors = 0
    /\ page_requests <= 6
    /\ (pc = "fetch" /\ last_request.page = page) =>
          page_requests = consecutive_errors

C19_Witness ==
    /\ pc = "fetch"
    /\ page = 2
    /\ last_request = [page |-> 1, answer |-> "ok_more"]
    /\ prev_request = [page |-> 1, answer |-> "status429"]
    /\ page_requests = 6
    /\ consecutive_errors = 0

====
